---------------------------- MODULE Spec2Model ----------------------------
(***************************************************************************)
(* A model of the ngo chaincode (ngo-chaincode/src/ngo.js): the point      *)
(* lookup, the range-scan query with its equality filter, the history      *)
(* query, and the createEntity / createEntry handlers, over an ordered     *)
(* key-value store.                                                        *)
(*                                                                         *)
(* Strings are sequences of one-character strings, so that keys can be     *)
(* concatenated and compared in ASCII order as the store compares them.    *)
(***************************************************************************)
EXTENDS Integers, Sequences, FiniteSets, TLC

VARIABLES
  store,        \* the world state: a function from the stored keys to their bytes
  pc,           \* "idle", or the loop a call is suspended in: "scan" / "hist"
  call,         \* the current (or last) call: its function and its argument
  response,     \* the entries the iterator was opened on
  cursor,       \* those of them the iterator has not yielded yet
  doneWithLast, \* whether the iterator flags done together with its last entry
  opened,       \* iterators obtained by the current (or last) call
  closed,       \* close() calls made by the current (or last) call
  doneSeen,     \* the iterator has signalled done to the current call
  lateNext,     \* next() was called after the iterator signalled done
  allResults,   \* the list the loop accumulates (allResults / history)
  ret           \* how the call ended: its status, error and payload

vars == <<store, pc, call, response, cursor, doneWithLast, opened, closed, doneSeen,
          lateNext, allResults, ret>>

-----------------------------------------------------------------------------
(* Bounds of the model *)

\* the most keys a pre-existing world state holds (specification SpecQuery)
MaxStore == 2
\* the most keys createEntity/createEntry may write (specification Spec)
MaxRecords == 3
\* the most mutations a key's change log holds
MaxLog == 3

-----------------------------------------------------------------------------
(* Strings *)

\* ASCII code of a character
Code(c) ==
  CASE c = "-" -> 45  [] c = "0" -> 48  [] c = "1" -> 49  [] c = "2" -> 50
    [] c = "A" -> 65  [] c = "a" -> 97  [] c = "b" -> 98  [] c = "d" -> 100
    [] c = "e" -> 101 [] c = "f" -> 102 [] c = "i" -> 105 [] c = "n" -> 110
    [] c = "r" -> 114 [] c = "t" -> 116 [] c = "u" -> 117 [] c = "x" -> 120
    [] c = "y" -> 121 [] c = "z" -> 122 [] c = "~" -> 126

\* a < b in the order of the store's keys (bytewise, lexicographic)
StrLess(a, b) ==
  \E i \in 1..Len(b) :
    /\ i <= Len(a) + 1
    /\ \A j \in 1..(i - 1) : a[j] = b[j]
    /\ (i > Len(a) \/ Code(a[i]) < Code(b[i]))

StrLeq(a, b) == a = b \/ StrLess(a, b)

ENTITY == <<"e", "n", "t", "i", "t", "y">>
ENTRY == <<"e", "n", "t", "r", "y">>
UNDEFINED == <<"u", "n", "d", "e", "f", "i", "n", "e", "d">>

-----------------------------------------------------------------------------
(* JavaScript values *)

Fields == {"docType", "entityRegistrationNumber", "entryId", "orderId",
           "entryName", "key", "selector"}

\* a JavaScript value: t is its type, s the characters of a string or the
\* numeral of a number, o the properties of an object (undefined for a
\* property the object lacks)
Undef == [t |-> "undefined", s |-> <<>>, o |-> <<>>]
Null == [t |-> "null", s |-> <<>>, o |-> <<>>]
Str(s) == [t |-> "string", s |-> s, o |-> <<>>]
Num(s) == [t |-> "number", s |-> s, o |-> <<>>]
Obj(o) == [t |-> "object", s |-> <<>>, o |-> o]

NoFields == [f \in Fields |-> Undef]

\* the object literal with the given properties (a function on some fields)
Lit(props) == Obj([f \in Fields |-> IF f \in DOMAIN props THEN props[f] ELSE Undef])

\* bytes: the text of a JSON document, or text that is no JSON
Json(doc) == [form |-> "json", doc |-> doc]
Text(s) == [form |-> "text", doc |-> Str(s)]
EmptyBytes == Text(<<>>)

\* !buffer.toString(): the text of a JSON document is never empty
IsEmpty(bytes) == bytes.form = "text" /\ bytes.doc.s = <<>>

\* buffer.toString('utf8') of bytes that are no JSON, as a JavaScript string
toString(bytes) == bytes.doc

\* JSON.parse: the document, or a SyntaxError
JSONparse(bytes) == [ok |-> bytes.form = "json", val |-> bytes.doc]

\* Buffer.from(JSON.stringify(v))
JSONstringify(v) == Json(v)

\* v[f] throws a TypeError
PropThrows(v) == v.t \in {"null", "undefined"}

\* v[f], for f one of Fields
Prop(v, f) == IF v.t = "object" THEN v.o[f] ELSE Undef

\* Object.keys(v).length
NumKeys(v) == Cardinality({f \in Fields : v.o[f].t # "undefined"})

\* string concatenation 'prefix' + v
Concat(prefix, v) == prefix \o (IF v.t = "undefined" THEN UNDEFINED ELSE v.s)

\* ToBoolean
Truthy(v) ==
  /\ v.t \notin {"undefined", "null"}
  /\ ~(v.t = "string" /\ v.s = <<>>)
  /\ ~(v.t = "number" /\ v.s = <<"0">>)

\* a == b: null and undefined equal each other only; a string and a number
\* are equal when the string is the number's numeral; two parsed objects are
\* never the same object
LooseEq(a, b) ==
  IF a.t \in {"undefined", "null"} \/ b.t \in {"undefined", "null"}
  THEN a.t \in {"undefined", "null"} /\ b.t \in {"undefined", "null"}
  ELSE a.t # "object" /\ b.t # "object" /\ a.s = b.s

\* json[f] = v
SetField(v, f, x) == Obj([v.o EXCEPT ![f] = x])

-----------------------------------------------------------------------------
(* The store *)

\* stub.getState(key): the bytes, empty when the key is absent
getState(st, key) == IF key \in DOMAIN st THEN st[key] ELSE EmptyBytes

\* stub.putState(key, value)
putState(st, key, value) ==
  [k \in (DOMAIN st) \cup {key} |-> IF k = key THEN value ELSE st[k]]

RECURSIVE SortKeys(_)
\* the keys of S in ascending order
SortKeys(S) ==
  IF S = {} THEN <<>>
  ELSE LET m == CHOOSE k \in S : \A j \in S \ {k} : StrLess(k, j)
       IN <<m>> \o SortKeys(S \ {m})

\* stub.getStateByRange(startKey, endKey): the entries with
\* startKey <= key < endKey, ascending
getStateByRange(st, startKey, endKey) ==
  LET ks == SortKeys({k \in DOMAIN st : StrLeq(startKey, k) /\ StrLess(k, endKey)})
  IN [i \in 1..Len(ks) |-> [key |-> ks[i], value |-> st[ks[i]]]]

-----------------------------------------------------------------------------
(* Results of a call *)

Pending == [status |-> "pending", error |-> "", payload |-> EmptyBytes]
Success(payload) == [status |-> "ok", error |-> "", payload |-> payload]
Failure(error) == [status |-> "error", error |-> error, payload |-> EmptyBytes]

Call(fcn, args) == [fcn |-> fcn, args |-> args]

\* a call that obtains no iterator starts from a clean slate
NoIterator ==
  /\ response' = <<>>
  /\ cursor' = <<>>
  /\ opened' = 0
  /\ closed' = 0
  /\ doneSeen' = FALSE
  /\ lateNext' = FALSE
  /\ allResults' = <<>>

-----------------------------------------------------------------------------
(* Point lookup *)

\* queryByKey without the test for an empty value
queryByKeyNoCheck(st, key) == Success(getState(st, key))

\* queryByKey(stub, key)
queryByKey(st, key) ==
  LET resultAsBytes == getState(st, key)
  IN IF IsEmpty(resultAsBytes)
     THEN Failure("does not exist")
     ELSE Success(resultAsBytes)

\* Chaincode.queryEntity, as a function of the store and the argument
queryEntityResult(st, args) ==
  LET p == JSONparse(args)
  IN IF ~p.ok THEN Failure("SyntaxError")
     ELSE IF PropThrows(p.val) THEN Failure("TypeError")
     ELSE queryByKey(st, Concat(ENTITY, Prop(p.val, "entityRegistrationNumber")))

-----------------------------------------------------------------------------
(* createEntity and createEntry *)

\* createEntity without the check that the Entity already exists
createEntityOverwrites(st, args) ==
  LET p == JSONparse(args)
      key == Concat(ENTITY, Prop(p.val, "entityRegistrationNumber"))
      json == SetField(p.val, "docType", Str(ENTITY))
  IN IF ~p.ok THEN [ret |-> Failure("SyntaxError"), store |-> st]
     ELSE IF p.val.t # "object" THEN [ret |-> Failure("TypeError"), store |-> st]
     ELSE [ret |-> Success(EmptyBytes),
           store |-> putState(st, key, JSONstringify(json))]

\* createEntity that stores the argument as given, docType not set
createEntityKeepsDocType(st, args) ==
  LET p == JSONparse(args)
      key == Concat(ENTITY, Prop(p.val, "entityRegistrationNumber"))
  IN IF ~p.ok THEN [ret |-> Failure("SyntaxError"), store |-> st]
     ELSE IF p.val.t # "object" THEN [ret |-> Failure("TypeError"), store |-> st]
     ELSE IF ~IsEmpty(getState(st, key))
     THEN [ret |-> Failure("already exists"), store |-> st]
     ELSE [ret |-> Success(EmptyBytes),
           store |-> putState(st, key, JSONstringify(p.val))]

\* Chaincode.createEntity: the outcome and the store it leaves
createEntityResult(st, args) ==
  LET p == JSONparse(args)
      key == Concat(ENTITY, Prop(p.val, "entityRegistrationNumber"))
      json == SetField(p.val, "docType", Str(ENTITY))
  IN IF ~p.ok THEN [ret |-> Failure("SyntaxError"), store |-> st]
     ELSE IF p.val.t # "object" THEN [ret |-> Failure("TypeError"), store |-> st]
     ELSE IF ~IsEmpty(getState(st, key))
     THEN [ret |-> Failure("already exists"), store |-> st]
     ELSE [ret |-> Success(EmptyBytes),
           store |-> putState(st, key, JSONstringify(json))]

\* createEntry without the check that the Entity exists
createEntryNoEntityCheck(st, args) ==
  LET p == JSONparse(args)
      key == Concat(ENTRY, Prop(p.val, "entryId"))
      json == SetField(p.val, "docType", Str(ENTRY))
  IN IF ~p.ok THEN [ret |-> Failure("SyntaxError"), store |-> st]
     ELSE IF p.val.t # "object" THEN [ret |-> Failure("TypeError"), store |-> st]
     ELSE IF ~IsEmpty(getState(st, key))
     THEN [ret |-> Failure("already exists"), store |-> st]
     ELSE [ret |-> Success(EmptyBytes),
           store |-> putState(st, key, JSONstringify(json))]

\* Chaincode.createEntry: the outcome and the store it leaves
createEntryResult(st, args) ==
  LET p == JSONparse(args)
      key == Concat(ENTRY, Prop(p.val, "entryId"))
      json == SetField(p.val, "docType", Str(ENTRY))
      entityKey == Concat(ENTITY, Prop(p.val, "entityRegistrationNumber"))
  IN IF ~p.ok THEN [ret |-> Failure("SyntaxError"), store |-> st]
     ELSE IF p.val.t # "object" THEN [ret |-> Failure("TypeError"), store |-> st]
     ELSE IF IsEmpty(getState(st, entityKey))
     THEN [ret |-> Failure("Entity does not exist"), store |-> st]
     ELSE IF ~IsEmpty(getState(st, key))
     THEN [ret |-> Failure("already exists"), store |-> st]
     ELSE [ret |-> Success(EmptyBytes),
           store |-> putState(st, key, JSONstringify(json))]

-----------------------------------------------------------------------------
(* queryByString *)

\* planRange with the end bound one character too far
planRangeWide(docType) ==
  [startKey |-> Concat(<<>>, docType) \o <<"0">>,
   endKey |-> Concat(<<>>, docType) \o <<"~">>]

\* the scan bounds of a docType
planRange(docType) ==
  [startKey |-> Concat(<<>>, docType) \o <<"0">>,
   endKey |-> Concat(<<>>, docType) \o <<"z">>]

\* queryByStringPlan that tests the selector only, not its docType
queryByStringPlanSelectorOnly(queryString) ==
  LET p == JSONparse(queryString)
      selector == Prop(p.val, "selector")
  IN IF ~p.ok THEN [ret |-> Failure("SyntaxError"), selector |-> Undef]
     ELSE IF PropThrows(p.val) THEN [ret |-> Failure("TypeError"), selector |-> Undef]
     ELSE IF Truthy(selector)
     THEN [ret |-> Pending, selector |-> selector]
     ELSE [ret |-> Failure("without a docType"), selector |-> Undef]

\* the parse of queryString and the docType check: the selector, or the
\* error thrown before any scan
queryByStringPlan(queryString) ==
  LET p == JSONparse(queryString)
      selector == Prop(p.val, "selector")
  IN IF ~p.ok THEN [ret |-> Failure("SyntaxError"), selector |-> Undef]
     ELSE IF PropThrows(p.val) THEN [ret |-> Failure("TypeError"), selector |-> Undef]
     ELSE IF Truthy(selector) /\ Truthy(Prop(selector, "docType"))
     THEN [ret |-> Pending, selector |-> selector]
     ELSE [ret |-> Failure("without a docType"), selector |-> Undef]

\* jsonRes whose Record stays unset when the value is no JSON
jsonResNoFallback(entry) ==
  LET p == JSONparse(entry.value)
  IN [Key |-> entry.key, Record |-> IF p.ok THEN p.val ELSE Undef]

\* jsonRes: the key and the decoded record of a scanned entry, the text of
\* the value when it is no JSON
jsonRes(entry) ==
  LET p == JSONparse(entry.value)
  IN [Key |-> entry.key,
      Record |-> IF p.ok THEN p.val ELSE toString(entry.value)]

\* the selector fields the filter loop tests: all but docType
FilterKeys(jsonRecord) ==
  {f \in Fields \ {"docType"} : jsonRecord.o[f].t # "undefined"}

\* FieldMatches without the comparison of the values
FieldPresent(record, jsonRecord, key) == Truthy(Prop(record, key))

\* the test of one selector field against the record
FieldMatches(record, jsonRecord, key) ==
  Truthy(Prop(record, key)) /\ LooseEq(Prop(record, key), jsonRecord.o[key])

\* the filter loop throws: jsonRes.Record[key] on a record that is null
FilterThrows(record, jsonRecord) ==
  /\ NumKeys(jsonRecord) # 1
  /\ FilterKeys(jsonRecord) # {}
  /\ PropThrows(record)

\* how many times the filter pushes jsonRes onto allResults
FilterPushes(record, jsonRecord) ==
  IF NumKeys(jsonRecord) = 1 THEN 1
  ELSE Cardinality({f \in FilterKeys(jsonRecord) : FieldMatches(record, jsonRecord, f)})

\* n copies of x
Copies(n, x) == [i \in 1..n |-> x]

\* the selector of the scan in progress
Selector == Prop(JSONparse(call.args).val, "selector")

\* the start of queryByString: parse, plan, stub.getStateByRange
queryByStringBegin(fcn, queryString) ==
  LET plan == queryByStringPlan(queryString)
      range == planRange(Prop(plan.selector, "docType"))
  IN /\ pc = "idle"
     /\ call' = Call(fcn, queryString)
     /\ ret' = plan.ret
     /\ IF plan.ret.status = "error"
        THEN pc' = "idle" /\ NoIterator
        ELSE /\ pc' = "scan"
             /\ response' = getStateByRange(store, range.startKey, range.endKey)
             /\ cursor' = response'
             /\ opened' = 1
             /\ closed' = 0
             /\ doneSeen' = FALSE
             /\ lateNext' = FALSE
             /\ allResults' = <<>>
     /\ UNCHANGED <<store, doneWithLast>>

\* queryByStringLoop that puts jsonRes at the front of allResults
queryByStringLoopUnshift ==
  LET hasValue == cursor # <<>>
      done == IF hasValue THEN Len(cursor) = 1 /\ doneWithLast ELSE TRUE
      entry == Head(cursor)
      processed == hasValue /\ ~IsEmpty(entry.value)
      res == jsonRes(entry)
      threw == processed /\ FilterThrows(res.Record, Selector)
      results == IF processed
                 THEN Copies(FilterPushes(res.Record, Selector), res) \o allResults
                 ELSE allResults
      continues == processed /\ NumKeys(Selector) = 1
  IN /\ pc = "scan"
     /\ cursor' = IF hasValue THEN Tail(cursor) ELSE cursor
     /\ lateNext' = (lateNext \/ doneSeen)
     /\ doneSeen' = (doneSeen \/ done)
     /\ IF threw
        THEN /\ pc' = "idle"
             /\ ret' = Failure("TypeError")
             /\ UNCHANGED <<allResults, closed>>
        ELSE /\ allResults' = results
             /\ IF done /\ ~continues
                THEN /\ closed' = closed + 1
                     /\ pc' = "idle"
                     /\ ret' = Success(JSONstringify(results))
                ELSE UNCHANGED <<pc, ret, closed>>
     /\ UNCHANGED <<store, call, response, doneWithLast, opened>>

\* one turn of the while loop of queryByString: iterator.next(), the decoding
\* and filtering of the entry, and on done the close and the return
queryByStringLoop ==
  LET hasValue == cursor # <<>>
      done == IF hasValue THEN Len(cursor) = 1 /\ doneWithLast ELSE TRUE
      entry == Head(cursor)
      processed == hasValue /\ ~IsEmpty(entry.value)
      res == jsonRes(entry)
      threw == processed /\ FilterThrows(res.Record, Selector)
      results == IF processed
                 THEN allResults \o Copies(FilterPushes(res.Record, Selector), res)
                 ELSE allResults
      continues == processed /\ NumKeys(Selector) = 1
  IN /\ pc = "scan"
     /\ cursor' = IF hasValue THEN Tail(cursor) ELSE cursor
     /\ lateNext' = (lateNext \/ doneSeen)
     /\ doneSeen' = (doneSeen \/ done)
     /\ IF threw
        THEN /\ pc' = "idle"
             /\ ret' = Failure("TypeError")
             /\ UNCHANGED <<allResults, closed>>
        ELSE /\ allResults' = results
             /\ IF done /\ ~continues
                THEN /\ closed' = closed + 1
                     /\ pc' = "idle"
                     /\ ret' = Success(JSONstringify(results))
                ELSE UNCHANGED <<pc, ret, closed>>
     /\ UNCHANGED <<store, call, response, doneWithLast, opened>>

\* iterator.next() rejects: the loop is left by the exception
iteratorNextFails ==
  /\ pc \in {"scan", "hist"}
  /\ pc' = "idle"
  /\ ret' = Failure("iterator")
  /\ lateNext' = (lateNext \/ doneSeen)
  /\ UNCHANGED <<store, call, response, cursor, doneWithLast, opened, closed, doneSeen,
                 allResults>>

-----------------------------------------------------------------------------
(* queryHistoryForKey *)

\* docType + key
HistoryKey(docType, key) ==
  IF docType.t = "undefined" /\ key.t = "undefined" THEN <<"N", "a", "N">>
  ELSE Concat(Concat(<<>>, docType), key)

\* is_delete.toString()
BoolToString(b) == IF b THEN "true" ELSE "false"

\* the parse of the argument of queryHistoryForKey: the key, or the error
queryHistoryForKeyPlan(args) ==
  LET p == JSONparse(args)
  IN IF ~p.ok THEN [ret |-> Failure("SyntaxError"), key |-> <<>>]
     ELSE IF PropThrows(p.val) THEN [ret |-> Failure("TypeError"), key |-> <<>>]
     ELSE [ret |-> Pending,
           key |-> HistoryKey(Prop(p.val, "docType"), Prop(p.val, "key"))]

\* the audit entry of a change record
historyRes(historyRecord) ==
  LET p == JSONparse(historyRecord.value)
  IN [TxId |-> historyRecord.tx_id,
      Timestamp |-> historyRecord.timestamp,
      IsDelete |-> BoolToString(historyRecord.is_delete),
      Record |-> IF p.ok THEN p.val ELSE toString(historyRecord.value)]

\* the change log the store keeps for a key ends with the key's current
\* value, or with a deletion (or is empty) when the key is absent
LogMatchesStore(log, st, key) ==
  getState(st, key) = (IF log = <<>> THEN EmptyBytes ELSE log[Len(log)].value)

\* the start of queryHistoryForKey: parse, stub.getHistoryForKey
queryHistoryForKeyBegin(args, log) ==
  LET plan == queryHistoryForKeyPlan(args)
  IN /\ pc = "idle"
     /\ call' = Call("queryHistoryForKey", args)
     /\ ret' = plan.ret
     /\ IF plan.ret.status = "error"
        THEN pc' = "idle" /\ NoIterator
        ELSE /\ LogMatchesStore(log, store, plan.key)
             /\ pc' = "hist"
             /\ response' = log
             /\ cursor' = log
             /\ opened' = 1
             /\ closed' = 0
             /\ doneSeen' = FALSE
             /\ lateNext' = FALSE
             /\ allResults' = <<>>
     /\ UNCHANGED <<store, doneWithLast>>

\* stub.getHistoryForKey rejects: the call fails with no iterator
getHistoryForKeyFails(args) ==
  /\ pc = "idle"
  /\ queryHistoryForKeyPlan(args).ret.status # "error"
  /\ call' = Call("queryHistoryForKey", args)
  /\ ret' = Failure("history unavailable")
  /\ pc' = "idle"
  /\ NoIterator
  /\ UNCHANGED <<store, doneWithLast>>

\* one turn of the while loop of queryHistoryForKey
queryHistoryForKeyLoop ==
  LET hasValue == cursor # <<>>
      done == IF hasValue THEN Len(cursor) = 1 /\ doneWithLast ELSE TRUE
      historyRecord == Head(cursor)
      processed == hasValue /\ ~IsEmpty(historyRecord.value)
      history == IF processed
                 THEN Append(allResults, historyRes(historyRecord))
                 ELSE allResults
  IN /\ pc = "hist"
     /\ cursor' = IF hasValue THEN Tail(cursor) ELSE cursor
     /\ lateNext' = (lateNext \/ doneSeen)
     /\ doneSeen' = (doneSeen \/ done)
     /\ allResults' = history
     /\ IF done
        THEN /\ closed' = closed + 1
             /\ pc' = "idle"
             /\ ret' = Success(JSONstringify(history))
        ELSE UNCHANGED <<pc, ret, closed>>
     /\ UNCHANGED <<store, call, response, doneWithLast, opened>>

-----------------------------------------------------------------------------
(* The arguments the calls are made with *)

RegistrationNumbers == {<<"1">>, <<"A", "1">>, <<"z">>, <<"z", "1">>}
EntryIds == {<<"1">>, <<"2">>}
Garbage == Text(<<"x">>)

CreateEntityArgs ==
  {Json(Lit([entityRegistrationNumber |-> Str(n)])) : n \in RegistrationNumbers}
  \cup {Json(Lit([entityRegistrationNumber |-> Str(<<"1">>), docType |-> Str(ENTRY)])),
        Json(Lit(<<>>)), Json(Null), Garbage}

CreateEntryArgs ==
  {Json(Lit([entryId |-> Str(e), entityRegistrationNumber |-> Str(n),
             orderId |-> Str(<<"a">>)])) : e \in EntryIds, n \in RegistrationNumbers}
  \cup {Json(Lit([entryId |-> Str(<<"1">>), entityRegistrationNumber |-> Str(<<"1">>),
                  docType |-> Str(ENTITY)])),
        Json(Null), Garbage}

QueryEntityArgs ==
  {Json(Lit([entityRegistrationNumber |-> Str(n)])) : n \in RegistrationNumbers}
  \cup {Json(Lit(<<>>)), Json(Null), Garbage}

\* the query string of queryAllEntities
AllEntitiesQuery == Json(Lit([selector |-> Lit([docType |-> Str(ENTITY)])]))

\* the keys and values of a world state written before this chaincode ran
ScanKeys == {ENTITY \o <<"1">>, ENTITY \o <<"2">>, ENTITY \o <<"-">>,
             ENTITY \o <<"z">>, ENTRY \o <<"1">>}

RecordAX == Json(Lit([docType |-> Str(ENTRY), orderId |-> Str(<<"a">>),
                      entryName |-> Str(<<"x">>)]))
RecordAB == Json(Lit([docType |-> Str(ENTRY), orderId |-> Str(<<"a">>),
                      entryName |-> Str(<<"b">>)]))
RecordNum == Json(Lit([docType |-> Str(ENTRY), orderId |-> Num(<<"1">>)]))

ScanValues == {RecordAX, RecordAB, RecordNum, Json(Null), Json(Num(<<"1">>)),
               Garbage}

ScanStores ==
  UNION {[K -> ScanValues] : K \in {K \in SUBSET ScanKeys : Cardinality(K) <= MaxStore}}

Query(selector) == Json(Lit([selector |-> selector]))

QueryStrings ==
  {Query(Lit([docType |-> Str(ENTITY)])),
   Query(Lit([docType |-> Str(ENTRY)])),
   Query(Lit([docType |-> Str(ENTITY), orderId |-> Str(<<"a">>)])),
   Query(Lit([docType |-> Str(ENTITY), orderId |-> Str(<<"1">>)])),
   Query(Lit([docType |-> Str(ENTITY), orderId |-> Str(<<"a">>),
              entryName |-> Str(<<"x">>)])),
   Query(Lit([orderId |-> Str(<<"a">>)])),
   Query(Lit([docType |-> Str(<<>>)])),
   Query(Str(ENTITY)),
   Json(Lit(<<>>)), Json(Null), Garbage}

HistoryArgs ==
  {Json(Lit([key |-> Str(<<"1">>), docType |-> Str(ENTITY)])),
   Json(Null), Garbage}

\* a change record: a write of a value, or a deletion, which carries no value
HistoryChanges ==
  {[is_delete |-> FALSE, value |-> v] : v \in {RecordAX, Garbage}}
  \cup {[is_delete |-> TRUE, value |-> EmptyBytes]}

\* the change logs of at most MaxLog mutations; the i-th has transaction id i
HistoryLogs ==
  {[i \in DOMAIN c |-> [tx_id |-> i, timestamp |-> 100 + i,
                        is_delete |-> c[i].is_delete, value |-> c[i].value]] :
     c \in UNION {[1..n -> HistoryChanges] : n \in 0..MaxLog}}

-----------------------------------------------------------------------------
(* The calls *)

createEntity ==
  \E args \in CreateEntityArgs :
    LET r == createEntityResult(store, args)
    IN /\ pc = "idle"
       /\ Cardinality(DOMAIN r.store) <= MaxRecords
       /\ call' = Call("createEntity", args)
       /\ ret' = r.ret
       /\ store' = r.store
       /\ NoIterator
       /\ UNCHANGED <<pc, doneWithLast>>

createEntry ==
  \E args \in CreateEntryArgs :
    LET r == createEntryResult(store, args)
    IN /\ pc = "idle"
       /\ Cardinality(DOMAIN r.store) <= MaxRecords
       /\ call' = Call("createEntry", args)
       /\ ret' = r.ret
       /\ store' = r.store
       /\ NoIterator
       /\ UNCHANGED <<pc, doneWithLast>>

\* queryEntity that stores a placeholder under a key it did not find
queryEntityStoresMissing ==
  \E args \in QueryEntityArgs :
    LET r == queryEntityResult(store, args)
        key == Concat(ENTITY, Prop(JSONparse(args).val, "entityRegistrationNumber"))
    IN /\ pc = "idle"
       /\ call' = Call("queryEntity", args)
       /\ ret' = r
       /\ store' = IF r.error = "does not exist"
                   THEN putState(store, key, JSONstringify(Null))
                   ELSE store
       /\ NoIterator
       /\ UNCHANGED <<pc, doneWithLast>>

queryEntity ==
  \E args \in QueryEntityArgs :
    /\ pc = "idle"
    /\ call' = Call("queryEntity", args)
    /\ ret' = queryEntityResult(store, args)
    /\ NoIterator
    /\ UNCHANGED <<store, pc, doneWithLast>>

queryAllEntities == queryByStringBegin("queryAllEntities", AllEntitiesQuery)

\* the change log of a key of a ledger this chaincode alone writes: the one
\* write that created the key, as the chaincode never updates or deletes
LedgerLog(st, key) ==
  IF IsEmpty(getState(st, key)) THEN <<>>
  ELSE <<[tx_id |-> 1, timestamp |-> 101, is_delete |-> FALSE, value |-> st[key]]>>

\* queryHistoryForKey on that ledger
queryLedgerHistory ==
  \E args \in HistoryArgs :
    queryHistoryForKeyBegin(args, LedgerLog(store, queryHistoryForKeyPlan(args).key))

\* A query leaves the world state as it is and starts from a clean slate, so
\* the calls made on a given world state are all covered by the first one.
FirstCall == call.fcn = "none"

queryByString ==
  \E queryString \in QueryStrings :
    FirstCall /\ queryByStringBegin("queryByString", queryString)

queryHistoryForKey ==
  \E args \in HistoryArgs, log \in HistoryLogs :
    FirstCall /\ queryHistoryForKeyBegin(args, log)

historyUnavailable ==
  \E args \in HistoryArgs : FirstCall /\ getHistoryForKeyFails(args)

-----------------------------------------------------------------------------
(* Specifications *)

InitCall ==
  /\ pc = "idle"
  /\ call = Call("none", EmptyBytes)
  /\ ret = Pending
  /\ response = <<>>
  /\ cursor = <<>>
  /\ doneWithLast \in BOOLEAN
  /\ opened = 0
  /\ closed = 0
  /\ doneSeen = FALSE
  /\ lateNext = FALSE
  /\ allResults = <<>>

\* the chaincode on a ledger it alone writes, from the empty world state
Init == store = <<>> /\ InitCall

Next ==
  \/ createEntity
  \/ createEntry
  \/ queryEntity
  \/ queryAllEntities
  \/ queryByStringLoop
  \/ queryLedgerHistory
  \/ queryHistoryForKeyLoop
  \/ iteratorNextFails

Spec == Init /\ [][Next]_vars

\* queryByString and queryHistoryForKey over any world state and any change log
InitQuery == store \in ScanStores /\ InitCall

NextQuery ==
  \/ queryByString
  \/ queryByStringLoop
  \/ queryHistoryForKey
  \/ historyUnavailable
  \/ queryHistoryForKeyLoop
  \/ iteratorNextFails

SpecQuery == InitQuery /\ [][NextQuery]_vars

-----------------------------------------------------------------------------
(* What the claims speak of *)

\* the call has returned its result
Returned(fcn) == pc = "idle" /\ call.fcn = fcn /\ ret.status = "ok"

\* the list a returned scan or history call carries in its payload
ResultList == JSONparse(ret.payload).val

\* the stored keys k with docType+"0" <= k < docType+"z"
KeysOfType(docType) ==
  {k \in DOMAIN store : StrLeq(docType \o <<"0">>, k) /\ StrLess(k, docType \o <<"z">>)}

\* the record a stored value decodes to: the document, or the text itself
Decoded(bytes) == IF bytes.form = "json" THEN bytes.doc ELSE Str(bytes.doc.s)

\* the places of the result list that carry key k
PlacesOf(k) == {i \in DOMAIN ResultList : ResultList[i].Key = k}

\* the selector's fields other than docType
EqualityFields == {f \in Fields \ {"docType"} : Selector.o[f].t # "undefined"}

\* record[f] is present and equal (JavaScript ==) to the selector's value
Satisfies(record, f) ==
  /\ record.t = "object"
  /\ record.o[f].t # "undefined"
  /\ LooseEq(record.o[f], Selector.o[f])

-----------------------------------------------------------------------------
(* C1: a scan whose selector has docType only returns exactly one entry,  *)
(* with the decoded record, for each stored key in                         *)
(* [docType+"0", docType+"z"), and the entries are in ascending key order. *)
C1_ScanReturnsRange ==
  (Returned("queryByString") /\ EqualityFields = {}) =>
    LET keys == KeysOfType(Selector.o["docType"].s)
    IN /\ \A k \in keys : Cardinality(PlacesOf(k)) = 1
       /\ \A i \in DOMAIN ResultList :
            /\ ResultList[i].Key \in keys
            /\ ResultList[i].Record = Decoded(store[ResultList[i].Key])
       /\ \A i, j \in DOMAIN ResultList :
            i < j => StrLess(ResultList[i].Key, ResultList[j].Key)

\* a docType-only scan has returned two entries, one of a value that is no JSON
C1_Witness ==
  /\ Returned("queryByString")
  /\ EqualityFields = {}
  /\ Len(ResultList) = 2
  /\ \E i \in DOMAIN ResultList : ResultList[i].Record = Str(<<"x">>)

(* C2: with docType and exactly one equality field f=v the scan is a       *)
(* strict filter: every returned record has record[f] equal to v, and no   *)
(* scanned record whose f is absent or different is returned.              *)
C2_OneFieldStrictFilter ==
  (Returned("queryByString") /\ Cardinality(EqualityFields) = 1) =>
    \A f \in EqualityFields :
      /\ \A i \in DOMAIN ResultList : Satisfies(ResultList[i].Record, f)
      /\ \A k \in KeysOfType(Selector.o["docType"].s) :
           ~Satisfies(Decoded(store[k]), f) => PlacesOf(k) = {}

\* a one-field scan has returned a matching entry and left out a scanned one
C2_Witness ==
  /\ Returned("queryByString")
  /\ Cardinality(EqualityFields) = 1
  /\ Len(ResultList) = 1
  /\ Len(response) = 2

(* C3: with two or more equality fields an entry is returned only if every *)
(* one of them is present in its record with an equal value.               *)
C3_Conjunction ==
  (Returned("queryByString") /\ Cardinality(EqualityFields) >= 2) =>
    \A i \in DOMAIN ResultList :
      \A f \in EqualityFields : Satisfies(ResultList[i].Record, f)

(* C4: every call of queryByString or queryHistoryForKey that obtains a    *)
(* cursor closes it exactly once before the call ends, also when the call  *)
(* ends in failure.                                                        *)
C4_CursorClosedOnce == (pc = "idle" /\ opened = 1) => closed = 1

\* the entries of the iterator whose value is text that is no JSON
Undecodable == {i \in DOMAIN response : response[i].value.form = "text"
                                        /\ ~IsEmpty(response[i].value)}

\* the call is a history call, or a scan whose selector has docType only
NoEqualityFields == call.fcn = "queryHistoryForKey" \/ EqualityFields = {}

\* entry i of the iterator is in the result list with its text as the Record
KeptAsText(i) ==
  \E j \in DOMAIN ResultList :
    /\ ResultList[j].Record = Str(response[i].value.doc.s)
    /\ IF call.fcn = "queryHistoryForKey"
       THEN ResultList[j].TxId = response[i].tx_id
       ELSE ResultList[j].Key = response[i].key

(* C5 as claimed: an entry whose bytes are no JSON is in the returned      *)
(* result with its text as the Record, whatever the selector.              *)
C5_UndecodableKeptAlways ==
  (Returned("queryByString") \/ Returned("queryHistoryForKey")) =>
    \A i \in Undecodable : KeptAsText(i)

\* the returned result of a history call, or of a docType-only scan, holds
\* every undecodable entry with its text as the Record
C5_Final ==
  ((Returned("queryByString") \/ Returned("queryHistoryForKey")) /\ NoEqualityFields) =>
    \A i \in Undecodable : KeptAsText(i)

\* the turn of the loop that takes an undecodable entry does not fail, and in
\* a history call or a docType-only scan it appends the entry, the text as
\* its Record
C5_Step ==
  (/\ pc \in {"scan", "hist"}
   /\ cursor # <<>>
   /\ cursor' = Tail(cursor)
   /\ Head(cursor).value.form = "text"
   /\ ~IsEmpty(Head(cursor).value))
  => /\ ret'.status # "error"
     /\ NoEqualityFields =>
          /\ Len(allResults') = Len(allResults) + 1
          /\ allResults'[Len(allResults')].Record = Str(Head(cursor).value.doc.s)

(* C5, amended: an entry whose bytes are no JSON never aborts              *)
(* queryByString or queryHistoryForKey; queryHistoryForKey, and            *)
(* queryByString with a docType-only selector, return it with its text as  *)
(* the Record.                                                             *)
C5_UndecodableKept == []C5_Final /\ [][C5_Step]_vars

\* a history call has returned two entries, one of them undecodable
C5_Witness ==
  /\ Returned("queryHistoryForKey")
  /\ Len(ResultList) = 2
  /\ Undecodable # {}
  /\ \A i \in Undecodable : KeptAsText(i)

(* C6: queryHistoryForKey returns one entry for each of the N mutations of *)
(* the key's change log, in the log's order, each with the log's           *)
(* transaction id, timestamp and deletion flag.                            *)
C6_HistoryComplete ==
  Returned("queryHistoryForKey") =>
    /\ Len(ResultList) = Len(response)
    /\ \A i \in DOMAIN ResultList :
         /\ ResultList[i].TxId = response[i].tx_id
         /\ ResultList[i].Timestamp = response[i].timestamp
         /\ ResultList[i].IsDelete = BoolToString(response[i].is_delete)

(* C7: after createEntity calls with alphanumeric registration numbers,    *)
(* queryAllEntities returns every created entity exactly once and no       *)
(* record of another docType.                                              *)
C7_AllEntitiesReturned ==
  Returned("queryAllEntities") =>
    /\ \A n \in RegistrationNumbers :
         (ENTITY \o n) \in DOMAIN store => Cardinality(PlacesOf(ENTITY \o n)) = 1
    /\ \A i \in DOMAIN ResultList :
         Prop(ResultList[i].Record, "docType") = Str(ENTITY)

\* the step is a call of fcn that ran from start to end
Ran(fcn) == pc = "idle" /\ pc' = "idle" /\ call'.fcn = fcn /\ <<call, ret, store>>' # <<call, ret, store>>

\* the key 'entity' + entityRegistrationNumber the argument of the call names
NamedEntityKey(args) ==
  Concat(ENTITY, Prop(JSONparse(args).val, "entityRegistrationNumber"))

\* the argument is the text of a JSON object
IsObject(args) == args.form = "json" /\ args.doc.t = "object"

\* the store holds no value, or an empty one, under the key
Missing(st, key) == key \notin DOMAIN st \/ IsEmpty(st[key])

(* C8: createEntry whose entityRegistrationNumber names no existing entity *)
(* fails, and the store after the call equals the store before it.         *)
C8_EntryNeedsEntity ==
  [][(Ran("createEntry") /\ IsObject(call'.args)
        /\ Missing(store, NamedEntityKey(call'.args)))
     => (ret'.status = "error" /\ ret'.error = "Entity does not exist"
           /\ store' = store)]_vars

\* createEntry has failed for want of the entity, on a store that holds others
C8_Witness ==
  /\ pc = "idle"
  /\ call.fcn = "createEntry"
  /\ ret.error = "Entity does not exist"
  /\ Cardinality(DOMAIN store) >= 2
  /\ Missing(store, NamedEntityKey(call.args))

(* C9: the point lookup fails with the not-found error exactly when the    *)
(* value stored under the key is absent or empty, otherwise returns the    *)
(* stored bytes unchanged, and never writes to the store.                  *)
C9_PointLookup ==
  [][(Ran("queryEntity") /\ IsObject(call'.args)) =>
       LET key == NamedEntityKey(call'.args)
       IN /\ store' = store
          /\ (ret'.status = "error") = Missing(store, key)
          /\ ret'.status = "error" => ret'.error = "does not exist"
          /\ ret'.status = "ok" => ret'.payload = store[key]]_vars

\* queryEntity has returned the bytes stored under the key
C9_Witness ==
  /\ Returned("queryEntity")
  /\ NamedEntityKey(call.args) \in DOMAIN store
  /\ ret.payload = store[NamedEntityKey(call.args)]

\* the query string is a JSON object whose selector is missing or has no docType
LacksDocType(queryString) ==
  /\ IsObject(queryString)
  /\ \/ queryString.doc.o["selector"].t # "object"
     \/ queryString.doc.o["selector"].o["docType"].t = "undefined"

(* C10: queryByString with a query whose selector is missing or has no     *)
(* docType fails with the missing-docType error before any range scan is   *)
(* requested: no cursor is acquired.                                       *)
C10_MissingDocType ==
  (call.fcn = "queryByString" /\ LacksDocType(call.args)) =>
    /\ pc = "idle"
    /\ ret.status = "error"
    /\ ret.error = "without a docType"
    /\ opened = 0

\* queryByString has refused a selector that has a field but no docType
C10_Witness ==
  /\ call.fcn = "queryByString"
  /\ LacksDocType(call.args)
  /\ call.args.doc.o["selector"].t = "object"
  /\ ret.status = "error"

\* the string begins with the prefix
HasPrefix(str, prefix) ==
  Len(str) >= Len(prefix) /\ SubSeq(str, 1, Len(prefix)) = prefix

\* the stored keys that begin with the prefix
KeysWithPrefix(prefix) == {k \in DOMAIN store : HasPrefix(k, prefix)}

C12_DoneIsFinal ==
  /\ lateNext = FALSE
  /\ (pc = "idle" /\ doneSeen) => (closed = 1 /\ ret.status = "ok")

\* the places of the iterator's entries that carry key k
YieldedAt(k) == {a \in DOMAIN response : response[a].key = k}

\* the list holds its entries in the order the iterator yields their keys,
\* which is ascending
InScanOrder(list) ==
  \A i, j \in DOMAIN list :
    i < j => /\ StrLeq(list[i].Key, list[j].Key)
             /\ \E a \in YieldedAt(list[i].Key), b \in YieldedAt(list[j].Key) : a <= b

(* C13: for every selector the entries of the queryByString result are in  *)
(* the order the range cursor yielded them: ascending by key, none         *)
(* reordered.                                                              *)
C13_ScanOrder ==
  /\ (call.fcn = "queryByString" /\ opened = 1) => InScanOrder(allResults)
  /\ Returned("queryByString") => (ResultList = allResults /\ InScanOrder(ResultList))

\* a scan with an equality field has returned entries of two keys
C13_Witness ==
  /\ Returned("queryByString")
  /\ EqualityFields # {}
  /\ \E i, j \in DOMAIN ResultList : ResultList[i].Key # ResultList[j].Key

\* the functions that only query
QueryFunctions == {"queryEntity", "queryAllEntities", "queryByString",
                   "queryHistoryForKey"}

(* C14: the query operations (queryByKey/queryEntity,                      *)
(* queryByString/queryAllEntities, queryHistoryForKey) leave the store     *)
(* unchanged, whether they succeed or fail.                                *)
C14_QueriesLeaveStore ==
  [][(pc # "idle" \/ call'.fcn \in QueryFunctions) => store' = store]_vars

\* queryHistoryForKey has returned the one change of a key of a store of
\* several keys
C14_Witness ==
  /\ Returned("queryHistoryForKey")
  /\ Len(ResultList) = 1
  /\ Cardinality(DOMAIN store) >= 2

\* the key 'entry' + entryId the argument of the call names
NamedEntryKey(args) == Concat(ENTRY, Prop(JSONparse(args).val, "entryId"))

\* the step is a createEntity or createEntry whose key holds a value already
CreatesDuplicate ==
  \/ Ran("createEntity") /\ IsObject(call'.args)
       /\ ~Missing(store, NamedEntityKey(call'.args))
  \/ Ran("createEntry") /\ IsObject(call'.args)
       /\ ~Missing(store, NamedEntryKey(call'.args))

\* every stored key keeps its value in the step
KeysKept == \A k \in DOMAIN store : k \in DOMAIN store' /\ store'[k] = store[k]

(* C15 as claimed: createEntity (createEntry) on a key that holds a value  *)
(* fails with the already-exists error and leaves the store unchanged;     *)
(* records are write-once.                                                 *)
C15_DuplicateAlreadyExists ==
  [][/\ CreatesDuplicate => (ret'.error = "already exists" /\ store' = store)
     /\ KeysKept]_vars

(* C15, amended: createEntity (createEntry) on a key that holds a value    *)
(* fails and leaves the store unchanged; the error is already-exists,      *)
(* except that createEntry fails with the entity-does-not-exist error when *)
(* its entityRegistrationNumber names no existing entity; a written key    *)
(* never changes its value and is never removed.                           *)
C15_WriteOnce ==
  [][/\ CreatesDuplicate =>
          /\ ret'.status = "error"
          /\ store' = store
          /\ ret'.error =
               IF call'.fcn = "createEntry"
                  /\ Missing(store, NamedEntityKey(call'.args))
               THEN "Entity does not exist"
               ELSE "already exists"
     /\ KeysKept]_vars

\* createEntry has been refused for an entry that exists already
C15_Witness ==
  /\ pc = "idle"
  /\ call.fcn = "createEntry"
  /\ ret.error = "already exists"
  /\ NamedEntryKey(call.args) \in DOMAIN store

(* C16: for every selector the queryByString result never holds two        *)
(* entries with the same Key.                                              *)
C16_NoDuplicateKeys ==
  Returned("queryByString") =>
    \A i, j \in DOMAIN ResultList :
      ResultList[i].Key = ResultList[j].Key => i = j

(* C17: in every reachable state, for every entry record stored under an   *)
(* 'entry'+entryId key a non-empty entity record is stored under           *)
(* 'entity' + the entry's entityRegistrationNumber.                        *)
C17_EntryHasEntity ==
  \A k \in KeysWithPrefix(ENTRY) :
    LET entityKey == Concat(ENTITY, Prop(Decoded(store[k]), "entityRegistrationNumber"))
    IN /\ ~Missing(store, entityKey)
       /\ Prop(Decoded(store[entityKey]), "docType") = Str(ENTITY)

\* the store holds two entries, and a createEntry has just been refused
C17_Witness ==
  /\ Cardinality(KeysWithPrefix(ENTRY)) = 2
  /\ pc = "idle"
  /\ call.fcn = "createEntry"
  /\ ret.status = "error"

(* C18: queryByString with an additional equality field never fails        *)
(* because of the content of a scanned value: the scan goes on to          *)
(* completion and returns a result.                                        *)
C18_ValueNeverFailsScan ==
  (call.fcn = "queryByString" /\ pc = "idle" /\ opened = 1
     /\ EqualityFields # {} /\ ret.status = "error")
  => ret.error = "iterator"

=============================================================================
